---- MODULE Spec2Model ----
(***************************************************************************)
(* Reminder scheduler of the habit-tracking backend.                       *)
(*                                                                         *)
(* Sources: the Reminder model (its nextSendTime virtual and its pre-save  *)
(* hook) and routes/reminders.js (the reminderJobs map, scheduleReminder,  *)
(* cancelReminderSchedule, updateReminderSchedule, sendReminder,           *)
(* initializeScheduler and the create / update / delete / toggle routes).  *)
(*                                                                         *)
(* Time is an integer number of minutes of server-local time; instant 0 is *)
(* a Sunday 00:00.  The clock is observed every TickLen minutes.  A timer  *)
(* callback is dispatched once the clock has passed the timer's instant,   *)
(* so every `new Date()` evaluated inside a fire callback is strictly      *)
(* later than the instant the timer was set for.                           *)
(*                                                                         *)
(* Every `await` of a handler is a point where other handlers run: the     *)
(* effect of a storage call on the database and the continuation that      *)
(* consumes its result are separate steps.                                 *)
(***************************************************************************)
EXTENDS Integers, FiniteSets, Sequences, TLC

(* ------------------------------ bounds -------------------------------- *)
\* number of reminder ids that can exist
NumIds == 1
\* number of API requests served in one behaviour
MaxReqs == 2
\* number of clock observations in one behaviour
MaxTicks == 1
\* number of reminders the collection holds at start in the bootstrap runs
MaxBootDocs == 2
\* number of consecutive reads of nextSendTime, each just past the last result
MaxReads == 3

Ids == 1..NumIds

(* ------------------------------- time --------------------------------- *)
MinutesPerDay == 24 * 60
\* distance between two observations of the clock
TickLen == 12 * 60
\* JavaScript null (no Date)
NULL == -1
\* the clock when the server process starts: a Monday 00:00
StartTime == MinutesPerDay
\* the last instant the model observes
EndTime == StartTime + MaxTicks * TickLen

\* hours and minutes the requests of the model use for time.hour / time.minute
Hours == {0, 12}
Minutes == {0}

\* Date.prototype.getDay(): 0 = Sunday
getDay(t) == (t \div MinutesPerDay) % 7

\* d.setHours(hour, minute, 0, 0) applied to a Date holding instant t
setHours(t, hour, minute) ==
  (t \div MinutesPerDay) * MinutesPerDay + hour * 60 + minute

\* d.setDate(d.getDate() + 1) that stays on the same day
addDay_SameDay(t) == t

\* d.setDate(d.getDate() + 1)
addDay(t) == t + MinutesPerDay

(* --------------------------- Reminder model --------------------------- *)
Frequencies == {"once", "daily", "weekly", "monthly", "custom"}

\* while (!daysOfWeek.includes(nextDate.getDay())) { +1 day; if (++dayAdded > 7) break }
RECURSIVE advanceToDay(_, _, _)
advanceToDay(daysOfWeek, nextDate, dayAdded) ==
  IF getDay(nextDate) \in daysOfWeek THEN nextDate
  ELSE IF dayAdded + 1 > 7 THEN addDay(nextDate)
  ELSE advanceToDay(daysOfWeek, addDay(nextDate), dayAdded + 1)

\* nextSendTime without its first line (`if (!this.isActive) return null`)
nextSendTime_IgnoresActive(r, t) ==
  LET today == setHours(t, r.hour, r.minute)
      nextDate == IF today < t THEN addDay(today) ELSE today
  IN IF r.frequency = "weekly" /\ r.daysOfWeek # {}
     THEN advanceToDay(r.daysOfWeek, nextDate, 0)
     ELSE nextDate

\* reminderSchema.virtual('nextSendTime'), evaluated while the clock reads t
nextSendTime(r, t) ==
  IF ~r.isActive THEN NULL
  ELSE LET today == setHours(t, r.hour, r.minute)
           nextDate == IF today < t THEN addDay(today) ELSE today
       IN IF r.frequency = "weekly" /\ r.daysOfWeek # {}
          THEN advanceToDay(r.daysOfWeek, nextDate, 0)
          ELSE nextDate

\* daysOfWeek stored as null (a value apart from every array of days)
NullDays == {NULL}

\* the getter throws a TypeError at `this.daysOfWeek.length` when an active
\* weekly reminder was stored with daysOfWeek null
throwsOnRead(r) ==
  r.isActive /\ r.frequency = "weekly" /\ r.daysOfWeek = NullDays

\* reminderSchema.pre('save'): weekly with no days gets all seven days
preSave(r) ==
  IF r.frequency = "weekly" /\ r.daysOfWeek = {}
  THEN [r EXCEPT !.daysOfWeek = 0..6]
  ELSE r

(* ------------------------------- state -------------------------------- *)
VARIABLES
  now,          \* the server clock (new Date())
  db,           \* the reminders collection: stored id -> document
  nextId,       \* the next _id a new Reminder gets
  reminderJobs, \* the reminderJobs Map: id -> job handle
  timers,       \* node-schedule: pending one-shot invocations [h, id, at, doc]
  cbs,          \* fire callbacks in flight [h, id, doc, pc, at, ts, upd]
  reqs,         \* API requests in flight: a bag of [op, pc, id, doc, body]
  nreq,         \* requests accepted so far
  boot,         \* position of startServer: "connect", "loaded", "listening"
  bootDocs,     \* initializeScheduler's activeReminders: id -> document
  quiet,        \* ids whose delete / toggle-off has returned success and
                \* whose record has not been made active since
  lastCall,     \* what the step that led here did: a scheduler call, a
                \* rejected storage call, a failed send, or none of these
  faulted,      \* a storage call, a send or a scheduling call has failed in
                \* this behaviour
  arg,          \* resolver harness: the reminder nextSendTime is read from
  argNow,       \* resolver harness: the clock at the read
  ret           \* resolver harness: the values read, the latest first (<<>>
                \* before the first read; a read at a freely chosen clock
                \* starts the sequence again)

vars == <<now, db, nextId, reminderJobs, timers, cbs, reqs, nreq,
          boot, bootDocs, quiet, lastCall, faulted, arg, argNow, ret>>
sysVars == <<now, db, nextId, reminderJobs, timers, cbs, reqs, nreq,
             boot, bootDocs, quiet, lastCall, faulted>>
harnessVars == <<arg, argNow, ret>>

\* a Reminder document, scheduling-relevant paths only
Doc(isActive, frequency, daysOfWeek, hour, minute, endDate, lastSent) ==
  [isActive |-> isActive, frequency |-> frequency, daysOfWeek |-> daysOfWeek,
   hour |-> hour, minute |-> minute, endDate |-> endDate, lastSent |-> lastSent]

\* the paths a schedule is derived from
schedFields(r) ==
  [isActive |-> r.isActive, frequency |-> r.frequency,
   daysOfWeek |-> r.daysOfWeek, hour |-> r.hour, minute |-> r.minute]

\* the requests in flight
inFlight == DOMAIN reqs

(* ---------------------------- job registry ---------------------------- *)
\* the registry as one value, so that the scheduler functions compose
Reg == [timers |-> timers, jobs |-> reminderJobs]

has(reg, id) == id \in DOMAIN reg.jobs

liveTimers(reg, id) == {t \in reg.timers : t.id = id}

\* handles in use: pending, running, or still referenced by the map
usedHandles(reg) ==
  {t.h : t \in reg.timers} \cup {c.h : c \in cbs}
    \cup {reg.jobs[i] : i \in DOMAIN reg.jobs}

newHandle(reg) ==
  CHOOSE h \in 1..(Cardinality(usedHandles(reg)) + 1) :
    /\ h \notin usedHandles(reg)
    /\ \A k \in 1..(h - 1) : k \in usedHandles(reg)

\* job.cancel() that leaves the pending invocation in place
jobCancel_LeavesInvocation(ts, h) == ts

\* job.cancel(): drops the job's pending invocation, if it has one
jobCancel(ts, h) == {t \in ts : t.h # h}

\* cancelReminderSchedule without `reminderJobs.delete(reminderId)`
cancelReminderSchedule_KeepsEntry(reg, id) ==
  IF has(reg, id)
  THEN [timers |-> jobCancel(reg.timers, reg.jobs[id]), jobs |-> reg.jobs]
  ELSE reg

\* cancelReminderSchedule without `job.cancel()`
cancelReminderSchedule_KeepsTimer(reg, id) ==
  IF has(reg, id)
  THEN [timers |-> reg.timers,
        jobs |-> [i \in DOMAIN reg.jobs \ {id} |-> reg.jobs[i]]]
  ELSE reg

\* cancelReminderSchedule(reminderId)
cancelReminderSchedule(reg, id) ==
  IF has(reg, id)
  THEN [timers |-> jobCancel(reg.timers, reg.jobs[id]),
        jobs |-> [i \in DOMAIN reg.jobs \ {id} |-> reg.jobs[i]]]
  ELSE reg

\* scheduleJob followed by no `reminderJobs.set(reminderId, job)`
scheduleJob_NotRegistered(reg, id, at, doc, t) ==
  IF at >= t
  THEN [timers |-> reg.timers \cup
                     {[h |-> newHandle(reg), id |-> id, at |-> at, doc |-> doc]},
        jobs |-> reg.jobs]
  ELSE reg

\* schedule.scheduleJob(date, fn): a Date already passed gives no job
scheduleJob(reg, id, at, doc, t) ==
  IF at >= t
  THEN LET h == newHandle(reg)
       IN [timers |-> reg.timers \cup {[h |-> h, id |-> id, at |-> at, doc |-> doc]},
           jobs |-> [i \in DOMAIN reg.jobs \cup {id} |->
                       IF i = id THEN h ELSE reg.jobs[i]]]
  ELSE reg

\* scheduleReminder without `cancelReminderSchedule(reminderId)` at its start
scheduleReminder_NoCancel(reg, id, doc, t) ==
  IF ~doc.isActive \/ nextSendTime(doc, t) = NULL
  THEN reg
  ELSE scheduleJob(reg, id, nextSendTime(doc, t), doc, t)

\* scheduleReminder(reminder), called while the clock reads t
scheduleReminder(reg, id, doc, t) ==
  LET cleared == cancelReminderSchedule(reg, id)
  IN IF ~doc.isActive \/ nextSendTime(doc, t) = NULL
     THEN cleared
     ELSE scheduleJob(cleared, id, nextSendTime(doc, t), doc, t)

\* updateReminderSchedule(reminder)
updateReminderSchedule_NoReconcile(reg, id, doc, t) == reg

updateReminderSchedule(reg, id, doc, t) ==
  LET cleared == cancelReminderSchedule(reg, id)
  IN IF doc.isActive THEN scheduleReminder(cleared, id, doc, t) ELSE cleared

\* what lastCall records of one call
\* what lastCall records of a call fn(id) made with a reminder whose
\* isActive is `active`: whether a timer of the id was pending before the
\* call ("due" when the clock had reached its instant), and has(id) after it
Call(fn, id, active, before, after) ==
  [fn |-> fn, id |-> id, active |-> active,
   had |-> IF liveTimers(before, id) = {} THEN "none"
           ELSE IF \E t \in liveTimers(before, id) : t.at <= now THEN "due"
           ELSE "pending",
   has |-> has(after, id)]

NoCall == [fn |-> "none", id |-> 0, active |-> FALSE, had |-> "none", has |-> FALSE]
StorageFault == [NoCall EXCEPT !.fn = "storageFail"]
ScheduleFault(id) == [NoCall EXCEPT !.fn = "scheduleFail", !.id = id]
SendFault == [NoCall EXCEPT !.fn = "sendFail"]

(* ------------------------------- inputs ------------------------------- *)
\* documents found in the collection when the process starts
InitDocs ==
  { Doc(TRUE, "daily", {}, 0, 0, NULL, NULL),
    Doc(TRUE, "once", {}, 0, 0, NULL, NULL),
    Doc(FALSE, "daily", {}, 0, 0, NULL, NULL) }

\* bodies of POST /api/reminders accepted by the validators at clock t
\* (no startDate: it defaults to t; an endDate has to be later than it)
CreateBodies(t) ==
  { Doc(FALSE, "daily", {}, 0, 0, t + TickLen, NULL),
    Doc(TRUE, "weekly", {}, 0, 0, NULL, NULL) }

\* bodies of PUT /api/reminders/:id (no dates, so lines 293-309 pass)
UpdateBodies ==
  { [isActive |-> FALSE], [hour |-> 12] }

\* the date checks of POST / and PUT /:id on the request body at clock t:
\* a supplied startDate must not be in the past, and a supplied endDate must
\* be later than a supplied startDate
datesAccepted(body, t) ==
  /\ "startDate" \in DOMAIN body => body.startDate >= t
  /\ ("startDate" \in DOMAIN body /\ "endDate" \in DOMAIN body
       /\ body.endDate # NULL)
       => body.endDate > body.startDate

\* the schema's endDate validator, `!value || value > this.startDate`;
\* thisStartDate is NULL where `this` is not the document (update validators),
\* and a comparison with undefined is false
endDateValid(value, thisStartDate) ==
  value = NULL \/ (thisStartDate # NULL /\ value > thisStartDate)

\* findByIdAndUpdate(..., { runValidators: true }): the validators of the
\* paths in $set run without the document
updateValid(body) ==
  "endDate" \in DOMAIN body => endDateValid(body.endDate, NULL)

\* { $set: updateData } applied to a stored document
applySet(doc, body) ==
  [f \in DOMAIN doc |-> IF f \in DOMAIN body THEN body[f] ELSE doc[f]]

(* -------------------------------- Init -------------------------------- *)
Init ==
  /\ now = StartTime
  /\ \/ db = << >> /\ nextId = 1
     \/ \E d \in InitDocs : db = (1 :> d) /\ nextId = 2
  /\ reminderJobs = << >>
  /\ timers = {}
  /\ cbs = {}
  /\ reqs = << >>
  /\ nreq = 0
  /\ boot = "connect"
  /\ bootDocs = << >>
  /\ quiet = {}
  /\ lastCall = NoCall
  /\ faulted = FALSE
  /\ arg = Doc(FALSE, "daily", {}, 0, 0, NULL, NULL)
  /\ argNow = StartTime
  /\ ret = << >>

setReg(reg) == timers' = reg.timers /\ reminderJobs' = reg.jobs

(* ------------------------------ bootstrap ----------------------------- *)
\* the reminders of activeReminders whose scheduleReminder call throws
throwing(docs) == {i \in DOMAIN docs : throwsOnRead(docs[i])}

\* the loop of initializeScheduler that gives up after its first reminder
scheduleAll_FirstOnly(reg, docs, t) ==
  IF DOMAIN docs = {} THEN reg
  ELSE LET id == CHOOSE i \in DOMAIN docs : \A j \in DOMAIN docs : i <= j
       IN IF throwsOnRead(docs[id]) THEN cancelReminderSchedule(reg, id)
          ELSE scheduleReminder(reg, id, docs[id], t)

\* for (const reminder of activeReminders) scheduleReminder(reminder), inside
\* one try: a scheduleReminder call that throws (after its cancel) ends the loop
RECURSIVE scheduleAll(_, _, _)
scheduleAll(reg, docs, t) ==
  IF DOMAIN docs = {} THEN reg
  ELSE LET id == CHOOSE i \in DOMAIN docs : \A j \in DOMAIN docs : i <= j
           rest == [i \in DOMAIN docs \ {id} |-> docs[i]]
       IN IF throwsOnRead(docs[id]) THEN cancelReminderSchedule(reg, id)
          ELSE scheduleAll(scheduleReminder(reg, id, docs[id], t), rest, t)

\* initializeScheduler: Reminder.find({ isActive: true }) resolves
BootLoad ==
  /\ boot = "connect"
  /\ boot' = "loaded"
  /\ bootDocs' = [i \in {j \in DOMAIN db : db[j].isActive} |-> db[i]]
  /\ lastCall' = NoCall
  /\ UNCHANGED <<now, db, nextId, reminderJobs, timers, cbs, reqs, nreq,
                 quiet, faulted, harnessVars>>

\* initializeScheduler: the find rejects; the error is logged, the server starts
BootLoadFail ==
  /\ boot = "connect"
  /\ boot' = "listening"
  /\ lastCall' = StorageFault
  /\ faulted' = TRUE
  /\ UNCHANGED <<now, db, nextId, reminderJobs, timers, cbs, reqs, nreq,
                 bootDocs, quiet, harnessVars>>

\* initializeScheduler: the loop over activeReminders, then app.listen
BootSchedule ==
  /\ boot = "loaded"
  /\ boot' = "listening"
  /\ setReg(scheduleAll(Reg, bootDocs, now))
  /\ bootDocs' = << >>
  /\ lastCall' =
       IF DOMAIN bootDocs = {} THEN NoCall
       ELSE IF throwing(bootDocs) # {}
       THEN ScheduleFault(CHOOSE i \in throwing(bootDocs) :
                            \A j \in throwing(bootDocs) : i <= j)
       ELSE LET id == CHOOSE i \in DOMAIN bootDocs : \A j \in DOMAIN bootDocs : i >= j
            IN Call("schedule", id, bootDocs[id].isActive, Reg,
                    scheduleAll(Reg, bootDocs, now))
  /\ faulted' = (faulted \/ throwing(bootDocs) # {})
  /\ UNCHANGED <<now, db, nextId, cbs, reqs, nreq, quiet, harnessVars>>

(* -------------------------------- clock ------------------------------- *)
\* a pending timer whose instant the clock has passed
due(t) == t.at < now

\* the clock is observed TickLen later; timers that are due run first and
\* no handler stays suspended for as long as TickLen
Tick ==
  /\ now + TickLen <= EndTime
  /\ \A t \in timers : ~due(t)
  /\ inFlight = {} /\ cbs = {}
  /\ now' = now + TickLen
  /\ lastCall' = NoCall
  /\ UNCHANGED <<db, nextId, reminderJobs, timers, cbs, reqs, nreq, boot,
                 bootDocs, quiet, faulted, harnessVars>>

(* ---------------------------- fire callback --------------------------- *)
\* the job's invocation elapses: the callback starts and suspends inside
\* sendReminder at `await User.findById(reminder.userId)`
Fire ==
  \E t \in timers :
    /\ due(t)
    /\ timers' = timers \ {t}
    /\ cbs' = cbs \cup {[h |-> t.h, id |-> t.id, doc |-> t.doc, pc |-> "send",
                         at |-> t.at, ts |-> NULL, upd |-> << >>]}
    /\ lastCall' = NoCall
    /\ UNCHANGED <<now, db, nextId, reminderJobs, reqs, nreq, boot, bootDocs,
                   quiet, faulted, harnessVars>>

\* sendReminder finds the user and sends; the callback then awaits
\* findByIdAndUpdate(reminderId, { $set: { lastSent: new Date() } })
CbSend ==
  \E c \in cbs :
    /\ c.pc = "send"
    /\ cbs' = (cbs \ {c}) \cup {[c EXCEPT !.pc = "stamp", !.ts = now]}
    /\ lastCall' = NoCall
    /\ UNCHANGED <<now, db, nextId, reminderJobs, timers, reqs, nreq, boot,
                   bootDocs, quiet, faulted, harnessVars>>

\* sendReminder throws (user not found, or the lookup rejects): the catch
\* block logs the error and the callback ends
CbSendFail ==
  \E c \in cbs :
    /\ c.pc = "send"
    /\ cbs' = cbs \ {c}
    /\ lastCall' = SendFault
    /\ faulted' = TRUE
    /\ UNCHANGED <<now, db, nextId, reminderJobs, timers, reqs, nreq, boot,
                   bootDocs, quiet, harnessVars>>

\* the lastSent update reaches the collection (a missing record matches
\* nothing); a `once` reminder's callback ends, the others await findById
CbStamp ==
  \E c \in cbs :
    /\ c.pc = "stamp"
    /\ db' = IF c.id \in DOMAIN db
             THEN [db EXCEPT ![c.id].lastSent = c.ts] ELSE db
    /\ cbs' = IF c.doc.frequency # "once"
              THEN (cbs \ {c}) \cup {[c EXCEPT !.pc = "reload"]}
              ELSE cbs \ {c}
    /\ lastCall' = NoCall
    /\ UNCHANGED <<now, nextId, reminderJobs, timers, reqs, nreq, boot,
                   bootDocs, quiet, faulted, harnessVars>>

\* findById(reminderId) reads the collection
CbReload ==
  \E c \in cbs :
    /\ c.pc = "reload"
    /\ cbs' = (cbs \ {c}) \cup
              {[c EXCEPT !.pc = "resched",
                         !.upd = IF c.id \in DOMAIN db THEN <<db[c.id]>> ELSE << >>]}
    /\ lastCall' = NoCall
    /\ UNCHANGED <<now, db, nextId, reminderJobs, timers, reqs, nreq, boot,
                   bootDocs, quiet, faulted, harnessVars>>

\* a storage call of the callback rejects: the catch block logs, the callback ends
CbStorageFail ==
  \E c \in cbs :
    /\ c.pc \in {"stamp", "reload"}
    /\ cbs' = cbs \ {c}
    /\ lastCall' = StorageFault
    /\ faulted' = TRUE
    /\ UNCHANGED <<now, db, nextId, reminderJobs, timers, reqs, nreq, boot,
                   bootDocs, quiet, harnessVars>>

\* if (updatedReminder && updatedReminder.isActive) scheduleReminder(updatedReminder)
CbReschedule ==
  \E c \in cbs :
    /\ c.pc = "resched"
    /\ cbs' = cbs \ {c}
    /\ IF c.upd # << >> /\ c.upd[1].isActive
       THEN /\ setReg(scheduleReminder(Reg, c.id, c.upd[1], now))
            /\ lastCall' = Call("schedule", c.id, TRUE, Reg,
                                scheduleReminder(Reg, c.id, c.upd[1], now))
       ELSE lastCall' = NoCall /\ UNCHANGED <<reminderJobs, timers>>
    /\ UNCHANGED <<now, db, nextId, reqs, nreq, boot, bootDocs, quiet,
                   faulted, harnessVars>>

(* ------------------------------ requests ------------------------------ *)
\* a request for an id the collection may hold can be accepted
accepting == boot = "listening" /\ nreq < MaxReqs

\* the ids a client can address: a new reminder's id is learnt from the 201
\* response of its POST
knownIds ==
  {i \in 1..(nextId - 1) : \A r \in inFlight : ~(r.op = "create" /\ r.id = i)}

Req(op, pc, id, doc, body) ==
  [op |-> op, pc |-> pc, id |-> id, doc |-> doc, body |-> body]

\* the bag of requests with one request more or less
accept(B, r) ==
  IF r \in DOMAIN B THEN [B EXCEPT ![r] = @ + 1]
  ELSE [x \in DOMAIN B \cup {r} |-> IF x = r THEN 1 ELSE B[x]]

finish(B, r) ==
  IF B[r] > 1 THEN [B EXCEPT ![r] = @ - 1]
  ELSE [x \in DOMAIN B \ {r} |-> B[x]]

\* request r moves on as r2
move(r, r2) == reqs' = accept(finish(reqs, r), r2)

step(r, pc) == move(r, [r EXCEPT !.pc = pc])

\* POST /: the validated document is built and `reminder.save()` inserts it
CreateWith(Docs) ==
  \E body \in Docs :
    /\ accepting
    /\ nextId <= NumIds
    /\ nreq' = nreq + 1
    /\ nextId' = nextId + 1
    /\ db' = [i \in DOMAIN db \cup {nextId} |->
                IF i = nextId THEN preSave(body) ELSE db[i]]
    /\ reqs' = accept(reqs, Req("create", "sched", nextId, preSave(body), << >>))
    /\ lastCall' = NoCall
    /\ UNCHANGED <<now, reminderJobs, timers, cbs, boot, bootDocs, quiet,
                   faulted, harnessVars>>

Create == CreateWith(CreateBodies(now))

\* POST /: after the save, an active reminder is scheduled; 201
CreateSchedule ==
  \E r \in inFlight :
    /\ r.op = "create" /\ r.pc = "sched"
    /\ reqs' = finish(reqs, r)
    /\ IF r.doc.isActive
       THEN /\ setReg(scheduleReminder(Reg, r.id, r.doc, now))
            /\ lastCall' = Call("schedule", r.id, TRUE, Reg,
                                scheduleReminder(Reg, r.id, r.doc, now))
       ELSE lastCall' = NoCall /\ UNCHANGED <<reminderJobs, timers>>
    /\ UNCHANGED <<now, db, nextId, cbs, nreq, boot, bootDocs, quiet,
                   faulted, harnessVars>>

\* PUT /:id: findById reads the current reminder; 404 when there is none,
\* 400 when the date checks that follow reject the body
UpdateFindWith(Bodies) ==
  \E id \in knownIds, body \in Bodies :
    /\ accepting
    /\ nreq' = nreq + 1
    /\ reqs' = IF id \in DOMAIN db /\ datesAccepted(body, now)
               THEN accept(reqs, Req("update", "write", id, db[id], body))
               ELSE reqs
    /\ lastCall' = NoCall
    /\ UNCHANGED <<now, db, nextId, reminderJobs, timers, cbs, boot,
                   bootDocs, quiet, faulted, harnessVars>>

UpdateFind == UpdateFindWith(UpdateBodies)

\* PUT /:id: findByIdAndUpdate applies { $set: updateData } and returns the
\* new document, or null when the record is gone; it rejects (500) when an
\* update validator fails
UpdateWrite ==
  \E r \in inFlight :
    /\ r.op = "update" /\ r.pc = "write"
    /\ IF ~updateValid(r.body)
       THEN /\ reqs' = finish(reqs, r)
            /\ UNCHANGED <<db, quiet>>
       ELSE IF r.id \in DOMAIN db
       THEN /\ db' = [db EXCEPT ![r.id] = applySet(db[r.id], r.body)]
            /\ move(r, [r EXCEPT !.pc = "sched",
                                  !.doc = applySet(db[r.id], r.body)])
            /\ quiet' = IF applySet(db[r.id], r.body).isActive
                        THEN quiet \ {r.id} ELSE quiet
       ELSE /\ step(r, "null")
            /\ UNCHANGED <<db, quiet>>
    /\ lastCall' = NoCall
    /\ UNCHANGED <<now, nextId, reminderJobs, timers, cbs, nreq, boot,
                   bootDocs, faulted, harnessVars>>

\* PUT /:id: updateReminderSchedule(reminder); 200
UpdateSchedule ==
  \E r \in inFlight :
    /\ r.op = "update" /\ r.pc = "sched"
    /\ reqs' = finish(reqs, r)
    /\ setReg(updateReminderSchedule(Reg, r.id, r.doc, now))
    /\ lastCall' = Call("update", r.id, r.doc.isActive, Reg,
                        updateReminderSchedule(Reg, r.id, r.doc, now))
    /\ UNCHANGED <<now, db, nextId, cbs, nreq, boot, bootDocs, quiet,
                   faulted, harnessVars>>

\* PUT /:id: updateReminderSchedule(null) throws on reminder._id; 500
UpdateNull ==
  \E r \in inFlight :
    /\ r.op = "update" /\ r.pc = "null"
    /\ reqs' = finish(reqs, r)
    /\ lastCall' = NoCall
    /\ UNCHANGED <<now, db, nextId, reminderJobs, timers, cbs, nreq, boot,
                   bootDocs, quiet, faulted, harnessVars>>

\* DELETE /:id: findById reads the reminder; 404 when there is none
DeleteFind ==
  \E id \in knownIds :
    /\ accepting
    /\ nreq' = nreq + 1
    /\ reqs' = IF id \in DOMAIN db
               THEN accept(reqs, Req("delete", "cancel", id, db[id], << >>))
               ELSE reqs
    /\ lastCall' = NoCall
    /\ UNCHANGED <<now, db, nextId, reminderJobs, timers, cbs, boot,
                   bootDocs, quiet, faulted, harnessVars>>

\* DELETE /:id: cancelReminderSchedule(reminderId), then findByIdAndDelete is awaited
DeleteCancel ==
  \E r \in inFlight :
    /\ r.op = "delete" /\ r.pc = "cancel"
    /\ step(r, "remove")
    /\ setReg(cancelReminderSchedule(Reg, r.id))
    /\ lastCall' = Call("cancel", r.id, r.doc.isActive, Reg,
                        cancelReminderSchedule(Reg, r.id))
    /\ UNCHANGED <<now, db, nextId, cbs, nreq, boot, bootDocs, quiet,
                   faulted, harnessVars>>

\* DELETE /:id: findByIdAndDelete removes the record
DeleteRemove ==
  \E r \in inFlight :
    /\ r.op = "delete" /\ r.pc = "remove"
    /\ step(r, "respond")
    /\ db' = [i \in DOMAIN db \ {r.id} |-> db[i]]
    /\ lastCall' = NoCall
    /\ UNCHANGED <<now, nextId, reminderJobs, timers, cbs, nreq, boot,
                   bootDocs, quiet, faulted, harnessVars>>

\* DELETE /:id: 200, success
DeleteRespond ==
  \E r \in inFlight :
    /\ r.op = "delete" /\ r.pc = "respond"
    /\ reqs' = finish(reqs, r)
    /\ quiet' = quiet \cup {r.id}
    /\ lastCall' = NoCall
    /\ UNCHANGED <<now, db, nextId, reminderJobs, timers, cbs, nreq, boot,
                   bootDocs, faulted, harnessVars>>

\* POST /:id/toggle: findById reads the reminder; 404 when there is none
ToggleFind ==
  \E id \in knownIds :
    /\ accepting
    /\ nreq' = nreq + 1
    /\ reqs' = IF id \in DOMAIN db
               THEN accept(reqs, Req("toggle", "save", id, db[id], << >>))
               ELSE reqs
    /\ lastCall' = NoCall
    /\ UNCHANGED <<now, db, nextId, reminderJobs, timers, cbs, boot,
                   bootDocs, quiet, faulted, harnessVars>>

\* reminder.isActive = !reminder.isActive, then the pre-save hook
toggled(doc) == preSave([doc EXCEPT !.isActive = ~doc.isActive])

\* POST /:id/toggle: reminder.save() writes the modified paths of the
\* handler's document; it rejects when the record is gone (500)
ToggleSave ==
  \E r \in inFlight :
    /\ r.op = "toggle" /\ r.pc = "save"
    /\ IF r.id \in DOMAIN db
       THEN /\ db' = [db EXCEPT ![r.id].isActive = toggled(r.doc).isActive,
                                ![r.id].daysOfWeek =
                                   IF toggled(r.doc).daysOfWeek # r.doc.daysOfWeek
                                   THEN toggled(r.doc).daysOfWeek
                                   ELSE db[r.id].daysOfWeek]
            /\ move(r, [r EXCEPT !.pc = "sched", !.doc = toggled(r.doc)])
            /\ quiet' = IF toggled(r.doc).isActive THEN quiet \ {r.id} ELSE quiet
       ELSE /\ reqs' = finish(reqs, r)
            /\ UNCHANGED <<db, quiet>>
    /\ lastCall' = NoCall
    /\ UNCHANGED <<now, nextId, reminderJobs, timers, cbs, nreq, boot,
                   bootDocs, faulted, harnessVars>>

\* POST /:id/toggle: scheduleReminder or cancelReminderSchedule; 200
ToggleSchedule ==
  \E r \in inFlight :
    /\ r.op = "toggle" /\ r.pc = "sched"
    /\ reqs' = finish(reqs, r)
    /\ IF r.doc.isActive
       THEN /\ setReg(scheduleReminder(Reg, r.id, r.doc, now))
            /\ lastCall' = Call("schedule", r.id, TRUE, Reg,
                                scheduleReminder(Reg, r.id, r.doc, now))
            /\ UNCHANGED quiet
       ELSE /\ setReg(cancelReminderSchedule(Reg, r.id))
            /\ lastCall' = Call("cancel", r.id, FALSE, Reg,
                                cancelReminderSchedule(Reg, r.id))
            /\ quiet' = IF r.id \in DOMAIN db /\ db[r.id].isActive
                        THEN quiet ELSE quiet \cup {r.id}
    /\ UNCHANGED <<now, db, nextId, cbs, nreq, boot, bootDocs, faulted, harnessVars>>

\* a storage call a request awaits rejects: the catch block answers 500
ReqStorageFail ==
  \E r \in inFlight :
    /\ r.pc \in {"write", "save", "remove"}
    /\ reqs' = finish(reqs, r)
    /\ lastCall' = StorageFault
    /\ faulted' = TRUE
    /\ UNCHANGED <<now, db, nextId, reminderJobs, timers, cbs, nreq, boot,
                   bootDocs, quiet, harnessVars>>

(* -------------------------------- Spec -------------------------------- *)
Next ==
  \/ BootLoad \/ BootLoadFail \/ BootSchedule
  \/ Tick
  \/ Fire \/ CbSend \/ CbSendFail \/ CbStamp \/ CbReload \/ CbStorageFail
  \/ CbReschedule
  \/ Create \/ CreateSchedule
  \/ UpdateFind \/ UpdateWrite \/ UpdateSchedule \/ UpdateNull
  \/ DeleteFind \/ DeleteCancel \/ DeleteRemove \/ DeleteRespond
  \/ ToggleFind \/ ToggleSave \/ ToggleSchedule
  \/ ReqStorageFail

Spec == Init /\ [][Next]_vars

(* ---------------------------- bootstrap runs -------------------------- *)
\* The process starts on a collection of up to MaxBootDocs reminders, among
\* them possibly one stored with daysOfWeek null and one whose endDate has
\* passed, and serves no request: bootstrap, the clock and the fire callbacks
\* only.
Malformed == Doc(TRUE, "weekly", NullDays, 0, 0, NULL, NULL)

Expired == Doc(TRUE, "daily", {}, 0, 0, StartTime - TickLen, NULL)

InitDocsB == InitDocs \cup {Malformed, Expired}

InitB ==
  /\ now = StartTime
  /\ \E k \in 0..MaxBootDocs :
       /\ db \in [1..k -> InitDocsB]
       /\ nextId = k + 1
  /\ reminderJobs = << >> /\ timers = {} /\ cbs = {}
  /\ reqs = << >> /\ nreq = 0
  /\ boot = "connect" /\ bootDocs = << >>
  /\ quiet = {} /\ lastCall = NoCall /\ faulted = FALSE
  /\ arg = Doc(FALSE, "daily", {}, 0, 0, NULL, NULL)
  /\ argNow = StartTime
  /\ ret = << >>

NextB ==
  \/ BootLoad \/ BootLoadFail \/ BootSchedule
  \/ Tick
  \/ Fire \/ CbSend \/ CbSendFail \/ CbStamp \/ CbReload \/ CbStorageFail
  \/ CbReschedule

SpecB == InitB /\ [][NextB]_vars

(* --------------------------- toggle harness --------------------------- *)
\* The server is started and the only requests are POST /:id/toggle: the
\* round trips of the toggle route on their own, at any clock.
NextT ==
  \/ BootLoad \/ BootSchedule
  \/ Tick
  \/ ToggleFind \/ ToggleSave \/ ToggleSchedule

SpecT == Init /\ [][NextT]_vars

\* ---------------------------------------------------------------------
\* Creates, updates and toggles with the date paths: the records carry
\* startDate, the bodies may set frequency, daysOfWeek, startDate and endDate.

\* the document `new Reminder(body)` builds at clock t: schema defaults
\* (isActive true, daysOfWeek [], startDate Date.now) under the body's paths
newReminder(body, t) ==
  applySet(Doc(TRUE, "daily", {}, 0, 0, NULL, NULL) @@ [startDate |-> t], body)

\* POST / accepts a body that passes its date checks and whose document
\* passes the schema validation of save()
createAccepted(body, t) ==
  /\ datesAccepted(body, t)
  /\ endDateValid(newReminder(body, t).endDate, newReminder(body, t).startDate)

\* bodies of POST /: an end date alone, weekly with no days, and an end date
\* not after the start date
CreateBodiesU(t) ==
  { [endDate |-> t + TickLen],
    [frequency |-> "weekly"],
    [startDate |-> t + MinutesPerDay, endDate |-> t + TickLen] }

\* bodies of PUT /:id, one per scheduling-relevant path
UpdateBodiesU(t) ==
  { [frequency |-> "weekly"], [daysOfWeek |-> {}], [hour |-> 12],
    [isActive |-> FALSE],
    [startDate |-> t + 2 * MinutesPerDay], [startDate |-> t - TickLen],
    [endDate |-> t + TickLen] }

InitDocsU == {d @@ [startDate |-> StartTime - TickLen] : d \in InitDocs}

InitU ==
  /\ now = StartTime
  /\ \/ db = << >> /\ nextId = 1
     \/ \E d \in InitDocsU : db = (1 :> d) /\ nextId = 2
  /\ reminderJobs = << >> /\ timers = {} /\ cbs = {}
  /\ reqs = << >> /\ nreq = 0
  /\ boot = "connect" /\ bootDocs = << >>
  /\ quiet = {} /\ lastCall = NoCall /\ faulted = FALSE
  /\ arg = Doc(FALSE, "daily", {}, 0, 0, NULL, NULL)
  /\ argNow = StartTime
  /\ ret = << >>

CreateU ==
  CreateWith({newReminder(b, now) :
                b \in {c \in CreateBodiesU(now) : createAccepted(c, now)}})

UpdateFindU == UpdateFindWith(UpdateBodiesU(now))

NextU ==
  \/ BootLoad \/ BootSchedule
  \/ CreateU \/ CreateSchedule
  \/ UpdateFindU \/ UpdateWrite \/ UpdateSchedule
  \/ ToggleFind \/ ToggleSave \/ ToggleSchedule

SpecU == InitU /\ [][NextU]_vars

\* ---------------------------------------------------------------------
\* The test notification, POST /:id/test, beside the scheduler's own fires.

sendReminder_StampsLastSent(store, id, isTest, t) ==
  IF id \in DOMAIN store THEN [store EXCEPT ![id].lastSent = t] ELSE store

\* what sendReminder(reminder, isTest) leaves in the collection: it reads the
\* user, builds and logs the message, and writes nothing
sendReminder(store, id, isTest, t) == store

\* POST /:id/test: findById reads the reminder; 404 when there is none
TestFind ==
  \E id \in knownIds :
    /\ accepting
    /\ nreq' = nreq + 1
    /\ reqs' = IF id \in DOMAIN db
               THEN accept(reqs, Req("test", "send", id, db[id], << >>))
               ELSE reqs
    /\ lastCall' = NoCall
    /\ UNCHANGED <<now, db, nextId, reminderJobs, timers, cbs, boot,
                   bootDocs, quiet, faulted, harnessVars>>

\* POST /:id/test: `await sendReminder(reminder, true)` resolves; 200 with
\* the type and the sending time
TestSend ==
  \E r \in inFlight :
    /\ r.op = "test" /\ r.pc = "send"
    /\ db' = sendReminder(db, r.id, TRUE, now)
    /\ reqs' = finish(reqs, r)
    /\ lastCall' = NoCall
    /\ UNCHANGED <<now, nextId, reminderJobs, timers, cbs, nreq, boot,
                   bootDocs, quiet, faulted, harnessVars>>

\* POST /:id/test: sendReminder throws (user not found, or the lookup
\* rejects); 500
TestSendFail ==
  \E r \in inFlight :
    /\ r.op = "test" /\ r.pc = "send"
    /\ reqs' = finish(reqs, r)
    /\ lastCall' = SendFault
    /\ faulted' = TRUE
    /\ UNCHANGED <<now, db, nextId, reminderJobs, timers, cbs, nreq, boot,
                   bootDocs, quiet, harnessVars>>

NextS ==
  \/ BootLoad \/ BootSchedule
  \/ Tick
  \/ Fire \/ CbSend \/ CbStamp \/ CbReload \/ CbReschedule
  \/ TestFind \/ TestSend \/ TestSendFail

SpecS == Init /\ [][NextS]_vars

(* -------------------------- resolver harness -------------------------- *)
\* Reads of the nextSendTime virtual on their own: a reminder drawn from
\* HarnessDocs is read at clocks drawn from HarnessTimes; the system part of
\* the state stays as the process finds it at start with an empty collection.
HarnessDays == {{}, {0}, {1, 3, 5}}

\* a Thursday 10:00 and a Saturday 23:59
HarnessExtraTimes == {4 * MinutesPerDay + 10 * 60, 6 * MinutesPerDay + 23 * 60 + 59}

HarnessTimes ==
  {StartTime + k * TickLen : k \in 0..MaxTicks} \cup HarnessExtraTimes

\* values of the timezone path: the schema's default and one zone east of it
Zones == {"UTC", "Europe/Moscow"}

\* minutes a zone's wall clock is ahead of UTC
zoneOffset(z) == IF z = "UTC" THEN 0 ELSE 3 * 60

\* the zone of the server process, in which Date's setHours / getDay work
ServerZone == "UTC"

\* values of the startDate path: the process start and two days after it
HarnessStarts == {StartTime, StartTime + 2 * MinutesPerDay}

\* the harness documents carry the timezone and startDate paths of the schema
\* as well
HarnessDocs ==
  { Doc(a, f, d, h, m, e, NULL) @@ [timezone |-> z, startDate |-> b] :
      a \in BOOLEAN, f \in Frequencies, d \in HarnessDays,
      h \in {0, 9, 12, 23}, m \in {0, 30, 59},
      e \in {NULL, StartTime - TickLen, StartTime + TickLen},
      z \in Zones, b \in HarnessStarts }

InitR ==
  /\ now = StartTime
  /\ db = << >> /\ nextId = 1
  /\ reminderJobs = << >> /\ timers = {} /\ cbs = {}
  /\ reqs = << >> /\ nreq = 0
  /\ boot = "connect" /\ bootDocs = << >>
  /\ quiet = {} /\ lastCall = NoCall /\ faulted = FALSE
  /\ arg \in HarnessDocs
  /\ argNow = StartTime
  /\ ret = << >>

\* reminder.nextSendTime is read while the clock shows t
ReadNextSendTime ==
  \E t \in HarnessTimes :
    /\ t >= argNow
    /\ argNow' = t
    /\ ret' = <<nextSendTime(arg, t)>>
    /\ UNCHANGED <<arg, sysVars>>

\* the reminder has fired: { $set: { lastSent: new Date() } }
StampLastSent ==
  /\ arg.lastSent = NULL
  /\ arg' = [arg EXCEPT !.lastSent = argNow]
  /\ ret' = << >>
  /\ UNCHANGED <<argNow, sysVars>>

\* reminder.nextSendTime is read again one minute after the instant the
\* last read returned (the clock just past the fire)
ReadJustPast ==
  /\ ret # << >> /\ ret[1] # NULL
  /\ Len(ret) < MaxReads
  /\ argNow' = ret[1] + 1
  /\ ret' = <<nextSendTime(arg, ret[1] + 1)>> \o ret
  /\ UNCHANGED <<arg, sysVars>>

NextR == ReadNextSendTime \/ ReadJustPast \/ StampLastSent

SpecR == InitR /\ [][NextR]_vars

(* ======================= properties of the claims ===================== *)
\* no handler is suspended and the server is up
quiescent == boot = "listening" /\ inFlight = {} /\ cbs = {}

\* the callback of c is in flight before the step and gone after it
ended(c) == \A c2 \in cbs' : c2.h # c.h

\* the callback of c sends its notification in this step
sends(c) == c.pc = "send" /\ \E c2 \in cbs' : c2.h = c.h /\ c2.pc = "stamp"

\* the eligibility the data-model invariant names: active, a next instant,
\* and that instant not beyond endDate
eligible(r, t) ==
  /\ r.isActive
  /\ nextSendTime(r, t) # NULL
  /\ (r.endDate = NULL \/ nextSendTime(r, t) <= r.endDate)

\* C1: each reminder id has at most one live timer, which is the one the
\* reminderJobs map holds for the id; a timer installed for an id that had a
\* pending one leaves only the new one.
C1_AtMostOneLiveTimer ==
  \A id \in Ids :
    /\ Cardinality(liveTimers(Reg, id)) <= 1
    /\ \A t \in liveTimers(Reg, id) : has(Reg, id) /\ reminderJobs[id] = t.h

\* C1 witness: a scheduling call found a pending timer of the id and left
\* exactly one.
C1_Witness ==
  /\ lastCall.fn \in {"schedule", "update"}
  /\ lastCall.had # "none"
  /\ lastCall.has
  /\ Cardinality(liveTimers(Reg, lastCall.id)) = 1

\* C2: when the send fails in the fire callback of a recurring reminder that
\* is stored and active, a timer for the reminder is installed all the same.
C2_FailedSendKeepsRecurrence ==
  [][\A c \in cbs :
       ( /\ c.pc = "send" /\ ended(c)
         /\ c.doc.frequency # "once"
         /\ c.id \in DOMAIN db /\ db[c.id].isActive )
       => \E t \in timers' : t.id = c.id]_vars

\* C3: once a delete or a toggle-off of an id has returned success (and the
\* record has not been made active again), no timer of the id is live and no
\* fire callback sends a notification for it; behaviours in which a storage
\* call or a send failed are left aside.
C3_NoFireAfterCancel ==
  /\ [](~faulted => \A id \in quiet : liveTimers(Reg, id) = {})
  /\ [][~faulted => \A c \in cbs : c.id \in quiet => ~sends(c)]_vars

\* C4: whenever nothing is in flight (and nothing has failed), an id has
\* exactly one live timer iff its stored reminder is active with a non-null
\* next-fire instant not beyond endDate.
C4_TimerIffEligible ==
  (quiescent /\ ~faulted) =>
    \A id \in Ids :
      (Cardinality(liveTimers(Reg, id)) = 1)
        <=> (id \in DOMAIN db /\ eligible(db[id], now))

\* C5: when a fire callback ends (no storage call having been rejected),
\* the stored reminder's lastSent holds the time of that fire, whether the
\* send succeeded or failed.
C5_LastSentAlwaysStamped ==
  [][\A c \in cbs :
       (ended(c) /\ lastCall'.fn # "storageFail" /\ c.id \in DOMAIN db')
       => (db'[c.id].lastSent # NULL /\ db'[c.id].lastSent >= c.at)]_vars

\* C6: with only update / toggle requests having run (no timer has fired,
\* nothing has failed) and all of them finished, the timer left for an id was
\* computed from the record as it is stored.
C6_ScheduleMatchesStoredRecord ==
  (quiescent /\ ~faulted /\ now = StartTime) =>
    \A t \in timers :
      t.id \in DOMAIN db => schedFields(t.doc) = schedFields(db[t.id])

\* C7: a read of nextSendTime on a `once` reminder whose lastSent is set
\* gives null, whatever the clock.
C7_OnceFiredGivesNull ==
  (ret # << >> /\ arg.frequency = "once" /\ arg.lastSent # NULL)
    => ret[1] = NULL

\* C8: a read of nextSendTime on a reminder whose endDate lies before the
\* clock gives null, whatever the frequency, time and daysOfWeek.
C8_PastEndGivesNull ==
  (ret # << >> /\ arg.endDate # NULL /\ arg.endDate < argNow)
    => ret[1] = NULL

\* C9: nextSendTime of an inactive reminder is null (for the stored records
\* and for the documents the handlers hold), and a scheduleReminder /
\* updateReminderSchedule call made with an inactive reminder leaves no
\* timer registered for its id.
C9_InactiveNeverScheduled ==
  /\ \A id \in DOMAIN db : ~db[id].isActive => nextSendTime(db[id], now) = NULL
  /\ \A r \in inFlight : ~r.doc.isActive => nextSendTime(r.doc, now) = NULL
  /\ \A id \in DOMAIN db :
       ~db[id].isActive =>
         /\ ~has(scheduleReminder(Reg, id, db[id], now), id)
         /\ ~has(updateReminderSchedule(Reg, id, db[id], now), id)
  /\ (lastCall.fn \in {"schedule", "update"} /\ ~lastCall.active)
       => (~lastCall.has /\ ~has(Reg, lastCall.id)
           /\ liveTimers(Reg, lastCall.id) = {})

\* C9 witness: an update left the reminder inactive while a timer of the id
\* was pending, and the reconcile removed it.
C9_Witness ==
  /\ lastCall.fn = "update" /\ ~lastCall.active
  /\ lastCall.had # "none"
  /\ ~has(Reg, lastCall.id)
  /\ lastCall.id \in DOMAIN db /\ nextSendTime(db[lastCall.id], now) = NULL

\* C10: in every registry state cancelReminderSchedule(id) returns with
\* has(id) false and no timer of the id pending, changes nothing when the id
\* has no entry, and leaves the other ids alone; right after a call made by
\* a handler has(id) is false.
C10_CancelLeavesNoEntry ==
  /\ \A id \in Ids :
       LET after == cancelReminderSchedule(Reg, id)
       IN /\ ~has(after, id)
          /\ liveTimers(after, id) = {}
          /\ ~has(Reg, id) => after = Reg
          /\ \A other \in Ids \ {id} :
               /\ has(after, other) = has(Reg, other)
               /\ liveTimers(after, other) = liveTimers(Reg, other)
  /\ lastCall.fn = "cancel"
       => (~lastCall.has /\ ~has(Reg, lastCall.id)
           /\ liveTimers(Reg, lastCall.id) = {})

\* C10 witness: a handler's cancel found a timer whose instant the clock had
\* reached, and has(id) is false after it.
C10_Witness ==
  /\ lastCall.fn = "cancel"
  /\ lastCall.had = "due"
  /\ ~has(Reg, lastCall.id)

\* the instants the timers of an id are set for
fireInstants(reg, id) == {t.at : t \in liveTimers(reg, id)}

\* C11: scheduleReminder called twice in a row with the same active reminder
\* and the same clock leaves exactly the registry one call leaves: one live
\* timer of the id (so one fire), the same has(id), the same fire instant,
\* and the other ids untouched.
C11_ScheduleTwiceIsOnce ==
  \A id \in DOMAIN db :
    db[id].isActive =>
      LET once == scheduleReminder(Reg, id, db[id], now)
          twice == scheduleReminder(once, id, db[id], now)
      IN /\ Cardinality(liveTimers(twice, id)) = 1
         /\ has(twice, id) /\ has(once, id)
         /\ fireInstants(twice, id) = fireInstants(once, id)
         /\ \A t \in liveTimers(twice, id) : t.h = twice.jobs[id]
         /\ \A other \in Ids \ {id} :
              liveTimers(twice, other) = liveTimers(Reg, other)

\* C11 witness: an active stored reminder already has a pending timer (the
\* second call has one to replace) while a scheduling call has just run.
C11_Witness ==
  /\ lastCall.fn = "schedule" /\ lastCall.has
  /\ lastCall.id \in DOMAIN db /\ db[lastCall.id].isActive
  /\ Cardinality(liveTimers(scheduleReminder(Reg, lastCall.id, db[lastCall.id], now),
                             lastCall.id)) = 1

\* C12: the toggle route, toggling off, returns with has(id) false and no
\* timer of the id pending; toggling on again (the record still being as the
\* handler saved it) returns with exactly one timer of the id, set for the
\* instant a fresh scheduleReminder computes from the stored record.
C12_ToggleOffOnRestores ==
  [][\A r \in inFlight :
       (r.op = "toggle" /\ r.pc = "sched" /\ reqs' = finish(reqs, r))
       => IF ~r.doc.isActive
          THEN ~has(Reg', r.id) /\ liveTimers(Reg', r.id) = {}
          ELSE (r.id \in DOMAIN db /\ schedFields(db[r.id]) = schedFields(r.doc))
               => /\ Cardinality(liveTimers(Reg', r.id)) = 1
                  /\ has(Reg', r.id)
                  /\ fireInstants(Reg', r.id) =
                       fireInstants(scheduleReminder(Reg, r.id, db[r.id], now), r.id)
                  /\ fireInstants(Reg', r.id) = {nextSendTime(db[r.id], now)}]_vars

\* C12 witness: a record that was active at start has been toggled twice, off
\* and on again; the second toggle has just scheduled it, found no timer
\* (the first had removed it) and left one.
C12_Witness ==
  /\ nreq = 2 /\ inFlight = {}
  /\ lastCall.fn = "schedule" /\ lastCall.had = "none" /\ lastCall.has
  /\ lastCall.id \in DOMAIN db /\ db[lastCall.id].isActive
  /\ db[lastCall.id].frequency = "once"
  /\ Cardinality(liveTimers(Reg, lastCall.id)) = 1

\* C13: for an active daily reminder, reads of nextSendTime made with the
\* clock just past each returned instant give instants that grow strictly,
\* each exactly one day (24 hours of server wall-clock time) after the
\* previous one.
C13_DailyStepsOneDay ==
  (arg.isActive /\ arg.frequency = "daily") =>
    \A i \in 1..(Len(ret) - 1) :
      /\ ret[i] # NULL
      /\ ret[i] > ret[i + 1]
      /\ ret[i] = ret[i + 1] + MinutesPerDay

\* C13 witness: three consecutive instants of an active daily reminder set
\* for 23:59 have been read (each re-read happens at 00:00 of the next day).
C13_Witness ==
  /\ arg.isActive /\ arg.frequency = "daily"
  /\ arg.hour = 23 /\ arg.minute = 59
  /\ Len(ret) = 3
  /\ ret[1] = ret[3] + 2 * MinutesPerDay

\* the instants of the days from the clock's day on that show the reminder's
\* hour:minute on a day of the week in daysOfWeek
weeklySlots(r, t) ==
  {x \in {setHours(t + k * MinutesPerDay, r.hour, r.minute) : k \in 0..8} :
     getDay(x) \in r.daysOfWeek}

\* C14: for an active weekly reminder with a non-empty daysOfWeek, a read of
\* nextSendTime at any clock gives the earliest instant after the clock that
\* shows the reminder's hour:minute on a day of daysOfWeek, at most 7 days on.
C14_WeeklyEarliestAfterNow ==
  (Len(ret) = 1 /\ arg.isActive /\ arg.frequency = "weekly" /\ arg.daysOfWeek # {})
    => /\ ret[1] \in weeklySlots(arg, argNow)
       /\ ret[1] > argNow
       /\ ret[1] <= argNow + 7 * MinutesPerDay
       /\ \A x \in weeklySlots(arg, argNow) : x > argNow => ret[1] <= x

\* the minute of the day a wall clock of zone z shows at the server-local
\* instant t
minuteOfDayIn(t, z) ==
  (t - zoneOffset(ServerZone) + zoneOffset(z)) % MinutesPerDay

\* C15: the instant a read of nextSendTime returns shows the reminder's
\* hour:minute on the wall clock of the reminder's own timezone (so with the
\* default zone it is hour:minute UTC), and the same reminder with another
\* timezone gets another instant.
C15_TimeOfDayInReminderZone ==
  (Len(ret) = 1 /\ ret[1] # NULL) =>
    /\ minuteOfDayIn(ret[1], arg.timezone) = arg.hour * 60 + arg.minute
    /\ \A z \in Zones \ {arg.timezone} :
         nextSendTime([arg EXCEPT !.timezone = z], argNow) # ret[1]

\* C16: when the fire callback of a recurring reminder, its send and its
\* lastSent update done, resumes with the record it reloaded, it leaves
\* exactly one timer of the id, registered in reminderJobs and set for
\* nextSendTime of the reloaded record, when that record exists and is
\* active; when the reload found no record or an inactive one it leaves the
\* registry as it was.
C16_RescheduleFromReloaded ==
  [][\A c \in cbs :
       (c.pc = "resched" /\ ended(c))
       => IF c.upd # << >> /\ c.upd[1].isActive
          THEN /\ Cardinality(liveTimers(Reg', c.id)) = 1
               /\ has(Reg', c.id)
               /\ \A t \in liveTimers(Reg', c.id) :
                    /\ t.h = reminderJobs'[c.id]
                    /\ t.at = nextSendTime(c.upd[1], now)
                    /\ t.at > c.at
                    /\ t.doc = c.upd[1]
          ELSE timers' = timers /\ reminderJobs' = reminderJobs]_vars

\* C16 witness: with no request ever made, a scheduling call has just run
\* after the clock moved on: the fire callback of the reminder scheduled at
\* start has stamped lastSent, reloaded the record and installed its next timer.
C16_Witness ==
  /\ nreq = 0 /\ now > StartTime /\ cbs = {} /\ ~faulted
  /\ lastCall.fn = "schedule" /\ lastCall.has
  /\ lastCall.id \in DOMAIN db /\ db[lastCall.id].lastSent # NULL
  /\ \E t \in timers :
       t.id = lastCall.id /\ t.doc = db[t.id] /\ t.at = now + TickLen

\* C17: when initializeScheduler has run to its end (nothing failed) and
\* before anything else happens, every stored reminder that is active with a
\* non-null nextSendTime has exactly one timer, registered in reminderJobs
\* and set for that instant, and no inactive reminder has a timer or an entry.
C17_BootstrapSchedulesActive ==
  (boot = "listening" /\ ~faulted /\ now = StartTime /\ nreq = 0) =>
    \A id \in DOMAIN db :
      IF db[id].isActive /\ nextSendTime(db[id], now) # NULL
      THEN /\ Cardinality(liveTimers(Reg, id)) = 1
           /\ has(Reg, id)
           /\ \A t \in liveTimers(Reg, id) :
                t.h = reminderJobs[id] /\ t.at = nextSendTime(db[id], now)
      ELSE liveTimers(Reg, id) = {} /\ ~has(Reg, id)

\* C17 witness: bootstrap has just finished on a collection of two active
\* reminders, both of which have their timer.
C17_Witness ==
  /\ boot = "listening" /\ ~faulted /\ now = StartTime
  /\ DOMAIN db = {1, 2}
  /\ db[1].isActive /\ db[2].isActive
  /\ Cardinality(timers) = 2
  /\ has(Reg, 1) /\ has(Reg, 2)

\* C18: a failure in the pipeline of one reminder leaves the timers of the
\* others alone: a failed send or a rejected storage call in a fire callback
\* changes no timer and no entry, and when scheduleReminder throws for one
\* reminder during bootstrap every other active reminder (whose own
\* scheduling does not throw) still has its timer when bootstrap is over.
C18_FailureStaysLocal ==
  /\ [][(lastCall'.fn \in {"sendFail", "storageFail"} /\ boot = "listening")
         => (timers' = timers /\ reminderJobs' = reminderJobs)]_vars
  /\ [](lastCall.fn = "scheduleFail" =>
          \A id \in DOMAIN db \ {lastCall.id} :
            (db[id].isActive /\ ~throwsOnRead(db[id]))
              => Cardinality(liveTimers(Reg, id)) = 1)

\* C19: a read of nextSendTime never returns an instant at or before the
\* clock: when today's hour:minute is at or before the clock, the clock being
\* exactly at it included, the result is at least one calendar day on, with
\* the same time of day.
C19_ResultStrictlyAfterNow ==
  (Len(ret) >= 1 /\ ret[1] # NULL) =>
    /\ ret[1] > argNow
    /\ ret[1] % MinutesPerDay = arg.hour * 60 + arg.minute
    /\ setHours(argNow, arg.hour, arg.minute) <= argNow
         => ret[1] >= addDay(setHours(argNow, arg.hour, arg.minute))

\* C20: with an endDate that the clock has not passed, a read of nextSendTime
\* gives null rather than an instant later than endDate.
C20_NoInstantAfterEnd ==
  (Len(ret) >= 1 /\ arg.endDate # NULL /\ argNow <= arg.endDate) =>
    (ret[1] = NULL \/ ret[1] <= arg.endDate)

\* C21: a read of nextSendTime never gives an instant earlier than the
\* reminder's startDate.
C21_NotBeforeStart ==
  (Len(ret) >= 1 /\ ret[1] # NULL) => ret[1] >= arg.startDate

\* C22: a read of nextSendTime on a `custom` reminder gives the instant the
\* same reminder with frequency `weekly` gets at the same clock.
C22_CustomAsWeekly ==
  (Len(ret) >= 1 /\ arg.frequency = "custom")
    => ret[1] = nextSendTime([arg EXCEPT !.frequency = "weekly"], argNow)

\* C23: consecutive instants of an active `monthly` reminder (each read with
\* the clock just past the previous one) lie in different calendar months on
\* the same day of the month, so at least 28 days apart.
C23_MonthlyStepsAMonth ==
  (arg.isActive /\ arg.frequency = "monthly") =>
    \A i \in 1..(Len(ret) - 1) :
      ret[i] # NULL /\ ret[i] - ret[i + 1] >= 28 * MinutesPerDay

\* C24: every stored reminder with frequency weekly has a non-empty
\* daysOfWeek, whatever creates, updates and toggles have run.
C24_WeeklyHasDays ==
  \A id \in DOMAIN db : db[id].frequency = "weekly" => db[id].daysOfWeek # {}

\* C25: every stored reminder with an endDate has it strictly after its
\* startDate, whatever accepted creates and updates have run.
C25_EndAfterStart ==
  \A id \in DOMAIN db :
    db[id].endDate # NULL => db[id].endDate > db[id].startDate

\* C26: when the update route's scheduling step completes a request whose
\* written record is still the stored one and no other request on the id is
\* in flight, the id has exactly one registered timer, set for nextSendTime
\* of the stored record, when that record is active, and no timer and no
\* registry entry when it is inactive.
C26_UpdateReconciles ==
  [][\A r \in inFlight :
       (/\ r.op = "update" /\ r.pc = "sched" /\ reqs' = finish(reqs, r)
        /\ r.id \in DOMAIN db /\ db[r.id] = r.doc
        /\ \A q \in inFlight \ {r} : q.id # r.id)
       => IF db[r.id].isActive
          THEN /\ has(Reg', r.id)
               /\ Cardinality(liveTimers(Reg', r.id)) = 1
               /\ fireInstants(Reg', r.id) = {nextSendTime(db[r.id], now)}
          ELSE ~has(Reg', r.id) /\ liveTimers(Reg', r.id) = {}]_vars

\* C26 witness: an update that set the hour to 12 has completed on an active
\* reminder first scheduled for 00:00; its one timer is now set for 12:00.
C26_Witness ==
  /\ inFlight = {} /\ nreq >= 1
  /\ 1 \in DOMAIN db /\ db[1].isActive /\ db[1].hour = 12
  /\ has(Reg, 1)
  /\ fireInstants(Reg, 1) = {StartTime + 12 * 60}

\* C27: whenever no fire callback is running, an id that reminderJobs holds
\* (has(id), the isScheduled of GET /) has a pending timer.
C27_HasOnlyWhilePending ==
  cbs = {} => \A id \in DOMAIN reminderJobs : liveTimers(Reg, id) # {}

\* C28: no step installs a timer for a stored `once` reminder whose lastSent
\* is set, that is, one the scheduler has already sent.
C28_OnceNeverRescheduled ==
  [][\A t \in timers' \ timers :
       ~(/\ t.id \in DOMAIN db'
         /\ db'[t.id].frequency = "once"
         /\ db'[t.id].lastSent # NULL)]_vars

\* C29: with no failed send or storage call so far, whenever no request and
\* no fire callback is in flight, every stored active recurring reminder has
\* a pending registered timer.
C29_ActiveRecurringHasTimer ==
  (inFlight = {} /\ cbs = {} /\ boot = "listening" /\ ~faulted)
    => \A id \in DOMAIN db :
         (db[id].isActive /\ db[id].frequency # "once")
           => liveTimers(Reg, id) # {}

\* C30: no step of a test-notification request (its lookup, its send, its
\* failure) changes the collection, reminderJobs or any pending timer.
C30_TestChangesNothing ==
  [][((\E r \in inFlight : r.op = "test" /\ reqs' = finish(reqs, r))
      \/ (\E r \in DOMAIN reqs' : r.op = "test" /\ reqs' = accept(reqs, r)))
     => UNCHANGED <<db, reminderJobs, timers>>]_vars

\* C30 witness: a test notification has been sent, with no failure, for a
\* reminder that holds a registered pending timer and was never sent by the
\* scheduler.
C30_Witness ==
  /\ nreq >= 1 /\ inFlight = {} /\ ~faulted
  /\ 1 \in DOMAIN db /\ db[1].lastSent = NULL
  /\ has(Reg, 1) /\ liveTimers(Reg, 1) # {}

====
